---------------------------- MODULE Spec2Model ----------------------------
(***************************************************************************)
(* The real-time collaboration hub of backend/internal/websocket:          *)
(* hub.go (Hub, Run, JoinRoom, LeaveRoom, BroadcastToRoom) and client.go   *)
(* (HandleWebSocket, readPump, writePump and the message handlers).        *)
(*                                                                         *)
(* Goroutines: Hub.Run (hpc), and per client a readPump (rpc) and a        *)
(* writePump (wpc).  A section that holds h.mutex.Lock() is one step: no   *)
(* other lock holder can observe its inside.  A section that holds RLock   *)
(* (BroadcastToRoom) is one step per recipient, because several readers    *)
(* run at the same time.  A Go panic ends the process: panic # "none"      *)
(* disables every action.                                                  *)
(***************************************************************************)
EXTENDS Naturals, Sequences, FiniteSets, TLC

VARIABLES clients, rooms, send, closed, currentRoom, rpc, wpc, hpc, panic,
          nevents, apicall, conn, timer

vars == <<clients, rooms, send, closed, currentRoom, rpc, wpc, hpc, panic,
          nevents, apicall, conn, timer>>

-----------------------------------------------------------------------------
(* Bounds of the model *)

\* capacity of a client's send channel (256 in the code, scaled down)
QueueCap == 2

\* events of the environment: inbound frames read by all readPumps together
\* and connections lost
MaxEvents == 3

\* direct calls of the hub's exported methods (specification SpecApi)
MaxApiCalls == 3

\* inbound frames read by all readPumps together in specification SpecRoom
MaxRoomEvents == 4

\* direct calls of BroadcastToUser and BroadcastToAll (specification SpecBcast)
MaxBroadcasts == 4

\* time allowed to write a message to the peer, in seconds
writeWait == 10

\* time allowed to read the next pong message from the peer, in seconds
pongWait == 60

\* send pings to the peer with this period; must be less than pongWait
pingPeriod == (pongWait * 9) \div 10

Clients == {"c1", "c2", "c3"}

Rooms == {"r1", "r2"}

Users == {"u1", "u2"}

-----------------------------------------------------------------------------
(* Identity of a connection: the query parameters of the upgrade request *)

UserIDOf(c) == IF c = "c2" THEN "u2" ELSE "u1"

NameOf(u) == IF u = "u2" THEN "bob" ELSE "alice"

UsernameOf(c) == NameOf(UserIDOf(c))

-----------------------------------------------------------------------------
(* The wire envelope (Message).  The timestamp is time.Now() and is left out *)

Message(t, room, user, name, content, data) ==
    [type |-> t, room_id |-> room, user_id |-> user, username |-> name,
     content |-> content, data |-> data]

RelayTypes == {"content_change", "cursor_move", "selection_change", "chat_message"}

NoMessage == Message("", "", "", "", "", "")

\* Inbound frames.  A relayed type comes as an honest frame and as a forged
\* one that names another user and another room and fills both payload fields.
JoinFrame(r) == Message("join_room", r, "", "", "", "")

LeaveFrame == Message("leave_room", "", "", "", "", "")

PingFrame == Message("ping", "", "", "", "", "")

\* a frame whose type no handler knows
UnknownFrame == Message("typing", "r1", "", "", "", "")

\* a frame whose payload is not the JSON of an envelope
MalformedFrame == Message("", "", "", "", "", "{")

\* json.Unmarshal(message, &msg): the error and the decoded envelope
Unmarshal(message) ==
    IF message = MalformedFrame
    THEN [err |-> TRUE, msg |-> NoMessage]
    ELSE [err |-> FALSE, msg |-> message]

HonestFrame(t) ==
    Message(t, "", "", "", IF t = "chat_message" THEN "hi" ELSE "",
                           IF t = "chat_message" THEN "" ELSE "d1")

ForgedFrame(t, room, user, name) == Message(t, room, user, name, "yo", "d2")

\* the frames the peer of connection c may send: every handler is driven by
\* some peer, the first two peers move between the rooms
FramesOf(c) ==
    IF c = "c1"
    THEN {JoinFrame("r1"), JoinFrame("r2"), JoinFrame(""), LeaveFrame, PingFrame,
          HonestFrame("chat_message"), ForgedFrame("chat_message", "r2", "u2", "bob")}
    ELSE IF c = "c2"
    THEN {JoinFrame("r1"), JoinFrame("r2"), LeaveFrame, UnknownFrame,
          HonestFrame("content_change"),
          ForgedFrame("content_change", "r2", "u1", "alice")}
    ELSE {JoinFrame("r1"), HonestFrame("cursor_move"), HonestFrame("selection_change"),
          MalformedFrame}

-----------------------------------------------------------------------------
(* Positions of the goroutines *)

RPos(at, frame, msg, todo, evict) ==
    [at |-> at, frame |-> frame, msg |-> msg, todo |-> todo, evict |-> evict]

At(at) == RPos(at, NoMessage, NoMessage, {}, "")

InFrame(at, f) == RPos(at, f, NoMessage, {}, "")

\* Run: the case it is in; in the broadcast case the message and the range
HubAt(at, c) ==
    [at |-> at, client |-> c, msg |-> NoMessage, todo |-> {}, evict |-> ""]

\* the goroutine that calls the hub's exported methods: the last call, the
\* number of calls so far and, inside BroadcastToUser, the position in the range
Call(op, client, room, n) ==
    [op |-> op, client |-> client, room |-> room, n |-> n,
     at |-> "", msg |-> NoMessage, todo |-> {}, evict |-> ""]

NoCall == Call("", "", "", 0)

\* the transport of a connection as writePump drives it: the frame whose
\* writer is open (w), the queued messages still to be added to it (n) and
\* the last frame written to the peer (wire)
Conn(w, n, wire) == [w |-> w, n |-> n, wire |-> wire]

NoFrames == Conn(<<>>, 0, <<>>)

\* the timers of a connection, in seconds: time until the ticker of writePump
\* fires (tick), a tick waiting in ticker.C (pending), time until the read
\* deadline passes (deadline), time until the write in progress returns
\* (busy), and whether a ping was written since the deadline was last set
Timers(tick, pending, deadline, busy, probed) ==
    [tick |-> tick, pending |-> pending, deadline |-> deadline, busy |-> busy,
     probed |-> probed]

\* time.NewTicker(pingPeriod) and SetReadDeadline(time.Now().Add(pongWait))
\* at the start of the two pumps
NewTimers == Timers(pingPeriod, FALSE, pongWait, 0, FALSE)

Init ==
    /\ clients = {}
    /\ rooms = [r \in {} |-> {}]
    /\ send = [c \in Clients |-> <<>>]
    /\ closed = [c \in Clients |-> FALSE]
    /\ currentRoom = [c \in Clients |-> ""]
    /\ rpc = [c \in Clients |-> At("off")]
    /\ wpc = [c \in Clients |-> "off"]
    /\ hpc = HubAt("select", "")
    /\ panic = "none"
    /\ nevents = 0
    /\ apicall = NoCall
    /\ conn = [c \in Clients |-> NoFrames]
    /\ timer = [c \in Clients |-> NewTimers]

Alive == panic = "none"

\* one more event of the environment, within the bound
Count ==
    /\ nevents < MaxEvents
    /\ nevents' = nevents + 1

\* h.mutex: the goroutines inside an RLock section
RLockHolders ==
    {c \in Clients : rpc[c].at = "bcast"}
        \cup (IF hpc.at = "broadcast" THEN {"Run"} ELSE {})
        \cup (IF apicall.at = "bcast" THEN {"BroadcastToUser"} ELSE {})

\* variant of LockFree: Lock does not wait for the holders of RLock
LockFree_NoExclusion == TRUE

\* h.mutex.Lock() can be taken
LockFree == RLockHolders = {}

-----------------------------------------------------------------------------
(* Introspection *)

GetRoomCount(r) == IF r \in DOMAIN rooms THEN Cardinality(rooms[r]) ELSE 0

GetTotalClients == Cardinality(clients)

GetTotalRooms == Cardinality(DOMAIN rooms)

RoomsOf(c) == {r \in DOMAIN rooms : c \in rooms[r]}

-----------------------------------------------------------------------------
(* Channel operations on client.send *)

\* the send case of a select on an open channel is ready
CanSend(m) == Len(send[m]) < QueueCap

\* the recipients among V whose select takes the default branch
FullOf(V) == {m \in V : ~CanSend(m)}

\* the queues after one non-blocking send of message to every open recipient in V
Delivered(V, message) ==
    [m \in Clients |-> IF m \in V /\ CanSend(m) THEN Append(send[m], message)
                       ELSE send[m]]

\* c.send <- message, blocking: waits while the buffer is full, panics when closed
ChanSend(c, message) ==
    IF closed[c]
    THEN /\ panic' = "send on closed channel"
         /\ UNCHANGED send
    ELSE /\ CanSend(c)
         /\ send' = [send EXCEPT ![c] = Append(@, message)]
         /\ panic' = panic

-----------------------------------------------------------------------------
(* Hub: the sections that hold h.mutex.Lock()                              *)

\* broadcastToRoom over the room map rms.  The range over the member map has
\* no fixed order: when a member's channel is closed the send panics after
\* any subset V of the open members has been served.
broadcastToRoom(rms, roomID, message) ==
    IF roomID \notin DOMAIN rms
    THEN UNCHANGED <<send, closed, clients, panic>>
    ELSE LET members == rms[roomID]
             open == {m \in members : ~closed[m]}
         IN  \E V \in (IF open = members THEN {members} ELSE SUBSET open) :
               /\ send' = Delivered(V, message)
               /\ closed' = [m \in Clients |-> closed[m] \/ m \in FullOf(V)]
               /\ clients' = clients \ FullOf(V)
               /\ panic' = IF open = members THEN panic
                           ELSE "send on closed channel"

\* variant of JoinRoomRooms that also takes c out of every other room
JoinRoomRooms_LeavesPrior(c, roomID) ==
    [r \in (DOMAIN rooms) \cup {roomID} |->
        IF r = roomID
        THEN (IF roomID \in DOMAIN rooms THEN rooms[roomID] ELSE {}) \cup {c}
        ELSE rooms[r] \ {c}]

\* h.rooms after JoinRoom(client, roomID)
JoinRoomRooms(c, roomID) ==
    [r \in (DOMAIN rooms) \cup {roomID} |->
        IF r = roomID
        THEN (IF roomID \in DOMAIN rooms THEN rooms[roomID] ELSE {}) \cup {c}
        ELSE rooms[r]]

JoinRoom(c, roomID) ==
    LET rms == JoinRoomRooms(c, roomID)
    IN  /\ rooms' = rms
        /\ broadcastToRoom(rms, roomID,
              Message("user_joined", roomID, UserIDOf(c), UsernameOf(c), "", ""))

LeaveRoom(c, roomID) ==
    IF roomID \in DOMAIN rooms /\ c \in rooms[roomID]
    THEN LET rms == [rooms EXCEPT ![roomID] = @ \ {c}]
         IN  /\ broadcastToRoom(rms, roomID,
                   Message("user_left", roomID, UserIDOf(c), UsernameOf(c), "", ""))
             /\ rooms' = IF panic' = "none" /\ rms[roomID] = {}
                         THEN [r \in (DOMAIN rooms) \ {roomID} |-> rooms[r]]
                         ELSE rms
    ELSE UNCHANGED <<rooms, send, closed, clients, panic>>

\* h.rooms after the unregister case has removed client from all rooms
RemoveFromAllRooms(c) ==
    [r \in {x \in DOMAIN rooms : c \notin rooms[x] \/ rooms[x] # {c}} |->
        rooms[r] \ {c}]

-----------------------------------------------------------------------------
(* Hub.Run *)

\* connections are numbered in the order in which they are accepted
Earlier(c) == {d \in Clients : (d = "c1" /\ c # "c1") \/ (d = "c2" /\ c = "c3")}

\* HandleWebSocket creates the client and hands it to Run over h.register
\* (an unbuffered channel: the send returns when Run has received), then
\* starts the two pumps.  Run has not yet taken the lock.
HandleWebSocket(c) ==
    /\ Alive
    /\ rpc[c].at = "off"
    /\ \A d \in Earlier(c) : rpc[d].at # "off"
    /\ hpc.at = "select"
    /\ hpc' = HubAt("register", c)
    /\ rpc' = [rpc EXCEPT ![c] = At("idle")]
    /\ wpc' = [wpc EXCEPT ![c] = "wait"]
    /\ UNCHANGED <<clients, rooms, send, closed, currentRoom, panic, nevents, apicall,
                   conn, timer>>

\* variant of RunRegister in which Run waits, with the client in hand, until
\* every registered queue has space
RunRegister_WaitsForSpace ==
    /\ Alive
    /\ hpc.at = "register"
    /\ LockFree
    /\ \A m \in clients : CanSend(m)
    /\ clients' = clients \cup {hpc.client}
    /\ hpc' = HubAt("select", "")
    /\ UNCHANGED <<rooms, send, closed, currentRoom, rpc, wpc, panic, nevents, apicall,
                   conn, timer>>

\* case client := <-h.register
RunRegister ==
    /\ Alive
    /\ hpc.at = "register"
    /\ LockFree
    /\ clients' = clients \cup {hpc.client}
    /\ hpc' = HubAt("select", "")
    /\ UNCHANGED <<rooms, send, closed, currentRoom, rpc, wpc, panic, nevents, apicall,
                   conn, timer>>

\* case client := <-h.unregister, for the client c that Run has received
Unregister(c) ==
    IF c \in clients
    THEN /\ clients' = clients \ {c}
         /\ IF closed[c]
            THEN /\ panic' = "close of closed channel"
                 /\ UNCHANGED <<closed, rooms>>
            ELSE /\ closed' = [closed EXCEPT ![c] = TRUE]
                 /\ rooms' = RemoveFromAllRooms(c)
                 /\ panic' = panic
    ELSE UNCHANGED <<clients, closed, rooms, panic>>

\* ReadMessage fails (peer closed, read deadline passed, connection closed by
\* writePump): readPump's deferred c.hub.unregister <- c is received by Run,
\* which takes the lock and runs the unregister case
readPumpExit(c) ==
    /\ Alive
    /\ rpc[c].at = "idle"
    /\ hpc.at = "select"
    /\ LockFree
    /\ Count
    /\ Unregister(c)
    /\ rpc' = [rpc EXCEPT ![c] = At("done")]
    /\ UNCHANGED <<send, currentRoom, wpc, hpc, apicall, conn, timer>>

-----------------------------------------------------------------------------
(* Client: the handlers run by readPump.  A handler's steps up to and       *)
(* including its first section under the hub's lock are one step.           *)

\* variant of RelayMessage that keeps the user and the room the frame names
RelayMessage_TrustsFrame(c, msg) ==
    Message(msg.type,
            IF msg.room_id # "" THEN msg.room_id ELSE currentRoom[c],
            IF msg.user_id # "" THEN msg.user_id ELSE UserIDOf(c),
            IF msg.username # "" THEN msg.username ELSE UsernameOf(c),
            IF msg.type = "chat_message" THEN msg.content ELSE "",
            IF msg.type = "chat_message" THEN "" ELSE msg.data)

\* the envelope handleContentChange / handleCursorMove / handleSelectionChange /
\* handleChatMessage build from the inbound frame msg
RelayMessage(c, msg) ==
    Message(msg.type, currentRoom[c], UserIDOf(c), UsernameOf(c),
            IF msg.type = "chat_message" THEN msg.content ELSE "",
            IF msg.type = "chat_message" THEN "" ELSE msg.data)

\* variant of handleJoinRoom that joins without leaving the current room
handleJoinRoom_NoLeave(c, msg) ==
    IF msg.room_id = ""
    THEN /\ rpc' = [rpc EXCEPT ![c] = InFrame("idle", msg)]
         /\ UNCHANGED <<currentRoom, clients, rooms, send, closed, panic>>
    ELSE /\ LockFree
         /\ currentRoom' = [currentRoom EXCEPT ![c] = msg.room_id]
         /\ JoinRoom(c, msg.room_id)
         /\ rpc' = [rpc EXCEPT ![c] = InFrame("jr_confirm", msg)]

\* variant of handleJoinRoom without the check of the room id
handleJoinRoom_NoCheck(c, msg) ==
    /\ LockFree
    /\ currentRoom' = [currentRoom EXCEPT ![c] = msg.room_id]
    /\ IF currentRoom[c] # ""
       THEN /\ LeaveRoom(c, currentRoom[c])
            /\ rpc' = [rpc EXCEPT ![c] = InFrame("jr_join", msg)]
       ELSE /\ JoinRoom(c, msg.room_id)
            /\ rpc' = [rpc EXCEPT ![c] = InFrame("jr_confirm", msg)]

\* handleJoinRoom: an empty room id ends the handler; else leave the
\* current room if any, or join at once
handleJoinRoom(c, msg) ==
    IF msg.room_id = ""
    THEN /\ rpc' = [rpc EXCEPT ![c] = InFrame("idle", msg)]
         /\ UNCHANGED <<currentRoom, clients, rooms, send, closed, panic>>
    ELSE /\ LockFree
         /\ currentRoom' = [currentRoom EXCEPT ![c] = msg.room_id]
         /\ IF currentRoom[c] # ""
            THEN /\ LeaveRoom(c, currentRoom[c])
                 /\ rpc' = [rpc EXCEPT ![c] = InFrame("jr_join", msg)]
            ELSE /\ JoinRoom(c, msg.room_id)
                 /\ rpc' = [rpc EXCEPT ![c] = InFrame("jr_confirm", msg)]

\* variant of handleLeaveRoom that leaves the currentRoom field as it is
handleLeaveRoom_KeepsField(c, msg) ==
    /\ rpc' = [rpc EXCEPT ![c] = InFrame("lr_confirm", msg)]
    /\ UNCHANGED currentRoom
    /\ IF currentRoom[c] # ""
       THEN /\ LockFree
            /\ LeaveRoom(c, currentRoom[c])
       ELSE UNCHANGED <<clients, rooms, send, closed, panic>>

\* handleLeaveRoom: leave the current room if any
handleLeaveRoom(c, msg) ==
    /\ rpc' = [rpc EXCEPT ![c] = InFrame("lr_confirm", msg)]
    /\ currentRoom' = [currentRoom EXCEPT ![c] = ""]
    /\ IF currentRoom[c] # ""
       THEN /\ LockFree
            /\ LeaveRoom(c, currentRoom[c])
       ELSE UNCHANGED <<clients, rooms, send, closed, panic>>

\* variant of the relay handlers that, in no room, relays to the room the
\* frame names
handleRelay_ToNamedRoom(c, msg) ==
    /\ rpc' = [rpc EXCEPT ![c] =
          LET room == IF currentRoom[c] = "" THEN msg.room_id ELSE currentRoom[c]
          IN  IF room \in DOMAIN rooms
              THEN RPos("bcast", msg, RelayMessage(c, msg), rooms[room], "")
              ELSE At("idle")]
    /\ UNCHANGED <<currentRoom, clients, rooms, send, closed, panic>>

\* the four relaying handlers, up to BroadcastToRoom's RLock and room lookup;
\* in no room the handler returns at once
handleRelay(c, msg) ==
    /\ rpc' = [rpc EXCEPT ![c] =
          IF currentRoom[c] = ""
          THEN InFrame("idle", msg)
          ELSE IF currentRoom[c] \in DOMAIN rooms
               THEN RPos("bcast", msg, RelayMessage(c, msg),
                         rooms[currentRoom[c]], "")
               ELSE At("idle")]
    /\ UNCHANGED <<currentRoom, clients, rooms, send, closed, panic>>

handlePing(c, msg) ==
    /\ rpc' = [rpc EXCEPT ![c] = InFrame("ping_send", msg)]
    /\ UNCHANGED <<currentRoom, clients, rooms, send, closed, panic>>

\* variant of Dropped that ends the inbound loop as a read error does
Dropped_Break(c, msg) ==
    /\ rpc' = [rpc EXCEPT ![c] = At("done")]
    /\ hpc.at = "select"
    /\ LockFree
    /\ Unregister(c)
    /\ UNCHANGED <<currentRoom, send>>

\* log.Printf of a frame that is not handled: readPump is back in
\* ReadMessage, its position keeps the frame it has just dropped
Dropped(c, msg) ==
    /\ rpc' = [rpc EXCEPT ![c] = InFrame("idle", msg)]
    /\ UNCHANGED <<currentRoom, clients, rooms, send, closed, panic>>

handleMessage(c, msg) ==
    CASE msg.type = "join_room" -> handleJoinRoom(c, msg)
      [] msg.type = "leave_room" -> handleLeaveRoom(c, msg)
      [] msg.type \in RelayTypes -> handleRelay(c, msg)
      [] msg.type = "ping" -> handlePing(c, msg)
      [] OTHER -> Dropped(c, msg)

\* the body of readPump's loop for the frame message: a frame that does not
\* decode is logged and the loop continues, any other is dispatched
readPumpLoop(c, message) ==
    LET d == Unmarshal(message)
    IN  IF d.err THEN Dropped(c, message) ELSE handleMessage(c, d.msg)

\* readPump reads one frame from an open connection
ReadFrameOf(c, message) ==
    /\ Alive
    /\ rpc[c].at = "idle"
    /\ wpc[c] # "done"
    /\ Count
    /\ readPumpLoop(c, message)
    /\ UNCHANGED <<wpc, hpc, apicall, conn, timer>>

ReadFrame(c) == \E message \in FramesOf(c) : ReadFrameOf(c, message)

\* handleJoinRoom: c.hub.JoinRoom(c, roomID)
JoinRoomJoin(c) ==
    /\ Alive
    /\ rpc[c].at = "jr_join"
    /\ LockFree
    /\ JoinRoom(c, rpc[c].frame.room_id)
    /\ rpc' = [rpc EXCEPT ![c].at = "jr_confirm"]
    /\ UNCHANGED <<currentRoom, wpc, hpc, nevents, apicall, conn, timer>>

\* handleJoinRoom: c.send <- room_joined
JoinRoomConfirm(c) ==
    /\ Alive
    /\ rpc[c].at = "jr_confirm"
    /\ ChanSend(c, Message("room_joined", rpc[c].frame.room_id,
                           UserIDOf(c), UsernameOf(c), "", ""))
    /\ rpc' = [rpc EXCEPT ![c] = IF panic' = "none" THEN At("idle") ELSE @]
    /\ UNCHANGED <<clients, rooms, closed, currentRoom, wpc, hpc, nevents, apicall,
                   conn, timer>>

\* handleLeaveRoom: c.send <- room_left
LeaveRoomConfirm(c) ==
    /\ Alive
    /\ rpc[c].at = "lr_confirm"
    /\ ChanSend(c, Message("room_left", "", UserIDOf(c), UsernameOf(c), "", ""))
    /\ rpc' = [rpc EXCEPT ![c] = IF panic' = "none" THEN At("idle") ELSE @]
    /\ UNCHANGED <<clients, rooms, closed, currentRoom, wpc, hpc, nevents, apicall,
                   conn, timer>>

\* handlePing: c.send <- pong
PingSend(c) ==
    /\ Alive
    /\ rpc[c].at = "ping_send"
    /\ ChanSend(c, Message("pong", "", "", "", "", ""))
    /\ rpc' = [rpc EXCEPT ![c] = IF panic' = "none" THEN At("idle") ELSE @]
    /\ UNCHANGED <<clients, rooms, closed, currentRoom, wpc, hpc, nevents, apicall,
                   conn, timer>>

-----------------------------------------------------------------------------
(* Hub.BroadcastToRoom, under RLock: one step per recipient *)

\* the select at recipient m: send, or the default branch (m is to be evicted)
\* variant of the select in BroadcastToRoom that puts the message at the head
\* of the member's queue
BroadcastToRoomSelect_AtHead(c, m) ==
    IF closed[m]
    THEN /\ panic' = "send on closed channel"
         /\ UNCHANGED <<send, rpc>>
    ELSE /\ panic' = panic
         /\ IF CanSend(m)
            THEN /\ send' = [send EXCEPT ![m] = <<rpc[c].msg>> \o @]
                 /\ rpc' = [rpc EXCEPT ![c].todo = @ \ {m}]
            ELSE /\ send' = send
                 /\ rpc' = [rpc EXCEPT ![c].todo = @ \ {m}, ![c].evict = m]

BroadcastToRoomSelect(c, m) ==
    IF closed[m]
    THEN /\ panic' = "send on closed channel"
         /\ UNCHANGED <<send, rpc>>
    ELSE /\ panic' = panic
         /\ IF CanSend(m)
            THEN /\ send' = [send EXCEPT ![m] = Append(@, rpc[c].msg)]
                 /\ rpc' = [rpc EXCEPT ![c].todo = @ \ {m}]
            ELSE /\ send' = send
                 /\ rpc' = [rpc EXCEPT ![c].todo = @ \ {m}, ![c].evict = m]

BroadcastToRoomStep(c) ==
    /\ Alive
    /\ rpc[c].at = "bcast"
    /\ rpc[c].evict = ""
    /\ \E m \in rpc[c].todo : BroadcastToRoomSelect(c, m)
    /\ UNCHANGED <<clients, rooms, closed, currentRoom, wpc, hpc, nevents, apicall,
                   conn, timer>>

\* the default branch: close(client.send); delete(h.clients, client)
BroadcastToRoomEvict(c) ==
    /\ Alive
    /\ rpc[c].at = "bcast"
    /\ rpc[c].evict # ""
    /\ LET m == rpc[c].evict
       IN  IF closed[m]
           THEN /\ panic' = "close of closed channel"
                /\ UNCHANGED <<closed, clients, rpc>>
           ELSE /\ closed' = [closed EXCEPT ![m] = TRUE]
                /\ clients' = clients \ {m}
                /\ rpc' = [rpc EXCEPT ![c].evict = ""]
                /\ panic' = panic
    /\ UNCHANGED <<rooms, send, currentRoom, wpc, hpc, nevents, apicall,
                   conn, timer>>

\* the range is exhausted: RUnlock and return to readPump
BroadcastToRoomEnd(c) ==
    /\ Alive
    /\ rpc[c].at = "bcast"
    /\ rpc[c].evict = ""
    /\ rpc[c].todo = {}
    /\ rpc' = [rpc EXCEPT ![c] = At("idle")]
    /\ UNCHANGED <<clients, rooms, send, closed, currentRoom, wpc, hpc, panic,
                   nevents, apicall, conn, timer>>

-----------------------------------------------------------------------------
(* writePump *)

\* message, ok := <-c.send in the select, or w.Write(<-c.send) for a message
\* queued meanwhile: one receive from the channel.  A receive from the closed
\* and drained channel ends writePump, which closes the connection.
WriteRecv(c) ==
    /\ Alive
    /\ wpc[c] = "wait"
    /\ IF send[c] # <<>>
       THEN /\ send' = [send EXCEPT ![c] = Tail(@)]
            /\ UNCHANGED wpc
       ELSE /\ closed[c]
            /\ wpc' = [wpc EXCEPT ![c] = "done"]
            /\ UNCHANGED send
    /\ UNCHANGED <<clients, rooms, closed, currentRoom, rpc, hpc, panic, nevents, apicall,
                   conn, timer>>

-----------------------------------------------------------------------------
(* Direct calls of the hub's exported methods by other code of the server *)

ApiJoinRoom(c, r) ==
    /\ Alive
    /\ rpc[c].at # "off"
    /\ apicall.n < MaxApiCalls
    /\ LockFree
    /\ JoinRoom(c, r)
    /\ apicall' = Call("JoinRoom", c, r, apicall.n + 1)
    /\ UNCHANGED <<currentRoom, rpc, wpc, hpc, nevents, conn, timer>>

ApiLeaveRoom(c, r) ==
    /\ Alive
    /\ rpc[c].at # "off"
    /\ apicall.n < MaxApiCalls
    /\ LockFree
    /\ LeaveRoom(c, r)
    /\ apicall' = Call("LeaveRoom", c, r, apicall.n + 1)
    /\ UNCHANGED <<currentRoom, rpc, wpc, hpc, nevents, conn, timer>>

\* a second request on h.unregister for a connection, handled by Run
ApiUnregister(c) ==
    /\ Alive
    /\ rpc[c].at # "off"
    /\ apicall.n < MaxApiCalls
    /\ hpc.at = "select"
    /\ LockFree
    /\ Unregister(c)
    /\ apicall' = Call("Unregister", c, "", apicall.n + 1)
    /\ UNCHANGED <<send, currentRoom, rpc, wpc, hpc, nevents, conn, timer>>

-----------------------------------------------------------------------------
Next ==
    \/ \E c \in Clients : HandleWebSocket(c)
    \/ RunRegister
    \/ \E c \in Clients : readPumpExit(c)
    \/ \E c \in Clients : ReadFrame(c)
    \/ \E c \in Clients : JoinRoomJoin(c)
    \/ \E c \in Clients : JoinRoomConfirm(c)
    \/ \E c \in Clients : LeaveRoomConfirm(c)
    \/ \E c \in Clients : PingSend(c)
    \/ \E c \in Clients : BroadcastToRoomStep(c)
    \/ \E c \in Clients : BroadcastToRoomEvict(c)
    \/ \E c \in Clients : BroadcastToRoomEnd(c)
    \/ \E c \in Clients : WriteRecv(c)

Spec == Init /\ [][Next]_vars

\* The hub driven through its exported methods, by connections that send no
\* frames
NextApi ==
    \/ \E c \in Clients : HandleWebSocket(c)
    \/ RunRegister
    \/ \E c \in Clients : readPumpExit(c)
    \/ \E c \in Clients : WriteRecv(c)
    \/ \E c \in Clients, r \in Rooms : ApiJoinRoom(c, r)
    \/ \E c \in Clients, r \in Rooms : ApiLeaveRoom(c, r)
    \/ \E c \in Clients : ApiUnregister(c)

SpecApi == Init /\ [][NextApi]_vars

-----------------------------------------------------------------------------
(* The broadcasts over the registry: Run's broadcast case (the receiving    *)
(* end of BroadcastToAll) and BroadcastToUser.  Both range over h.clients    *)
(* under RLock, one step per entry.  p is the position of the goroutine:     *)
(* its message, the entries still to come and the entry to be evicted.       *)

NotifyMessage(u) == Message("notification", "", u, NameOf(u), "", "")

AnnounceMessage == Message("announcement", "", "", "", "", "")

\* select { case client.send <- message: default: ... } at entry m
SelectPanic(m) == IF closed[m] THEN "send on closed channel" ELSE panic

SelectSend(p, m) ==
    IF ~closed[m] /\ CanSend(m) THEN [send EXCEPT ![m] = Append(@, p.msg)]
    ELSE send

SelectPos(p, m) ==
    IF closed[m] THEN p
    ELSE IF CanSend(m) THEN [p EXCEPT !.todo = @ \ {m}]
    ELSE [p EXCEPT !.todo = @ \ {m}, !.evict = m]

\* the range passes entry m without a send
SkipPos(p, m) == [p EXCEPT !.todo = @ \ {m}]

\* the default branch: close(client.send); delete(h.clients, client).  When
\* another goroutine is ranging over h.clients the unsynchronised delete may
\* also be caught by the runtime, which ends the process.
Evict(m, otherRanging) ==
    \/ /\ closed[m]
       /\ panic' = "close of closed channel"
       /\ UNCHANGED <<closed, clients>>
    \/ /\ ~closed[m]
       /\ closed' = [closed EXCEPT ![m] = TRUE]
       /\ clients' = clients \ {m}
       /\ panic' = panic
    \/ /\ otherRanging
       /\ panic' = "concurrent map iteration and map write"
       /\ UNCHANGED <<closed, clients>>

\* BroadcastToAll: h.broadcast <- messageBytes is received by Run, which takes
\* RLock and starts its range over h.clients
ApiBroadcastToAll ==
    /\ Alive
    /\ apicall.at = ""
    /\ apicall.n < MaxBroadcasts
    /\ hpc.at = "select"
    /\ apicall' = Call("BroadcastToAll", "", "", apicall.n + 1)
    /\ hpc' = [HubAt("broadcast", "") EXCEPT !.msg = AnnounceMessage, !.todo = clients]
    /\ UNCHANGED <<clients, rooms, send, closed, currentRoom, rpc, wpc, panic, nevents,
                   conn, timer>>

\* an entry deleted by another goroutine during the range may be passed over
RunBroadcastStep ==
    /\ Alive
    /\ hpc.at = "broadcast"
    /\ hpc.evict = ""
    /\ \E m \in hpc.todo :
         \/ /\ m \notin clients
            /\ hpc' = SkipPos(hpc, m)
            /\ UNCHANGED <<send, panic>>
         \/ /\ hpc' = SelectPos(hpc, m)
            /\ send' = SelectSend(hpc, m)
            /\ panic' = SelectPanic(m)
    /\ UNCHANGED <<clients, rooms, closed, currentRoom, rpc, wpc, nevents, apicall,
                   conn, timer>>

RunBroadcastEvict ==
    /\ Alive
    /\ hpc.at = "broadcast"
    /\ hpc.evict # ""
    /\ Evict(hpc.evict, apicall.at = "bcast" /\ apicall.todo # {})
    /\ hpc' = IF panic' = "none" THEN [hpc EXCEPT !.evict = ""] ELSE hpc
    /\ UNCHANGED <<rooms, send, currentRoom, rpc, wpc, nevents, apicall,
                   conn, timer>>

RunBroadcastEnd ==
    /\ Alive
    /\ hpc.at = "broadcast"
    /\ hpc.evict = ""
    /\ hpc.todo = {}
    /\ hpc' = HubAt("select", "")
    /\ UNCHANGED <<clients, rooms, send, closed, currentRoom, rpc, wpc, panic,
                   nevents, apicall, conn, timer>>

\* BroadcastToUser(userID, message): RLock and the start of the range
ApiBroadcastToUser(u) ==
    /\ Alive
    /\ apicall.at = ""
    /\ apicall.n < MaxBroadcasts
    /\ apicall' = [Call("BroadcastToUser", "", "", apicall.n + 1) EXCEPT
                      !.at = "bcast", !.msg = NotifyMessage(u), !.todo = clients]
    /\ UNCHANGED <<clients, rooms, send, closed, currentRoom, rpc, wpc, hpc, panic,
                   nevents, conn, timer>>

\* one entry of the range: passed over unless client.UserID == userID
BroadcastToUserStep ==
    /\ Alive
    /\ apicall.at = "bcast"
    /\ apicall.evict = ""
    /\ \E m \in apicall.todo :
         \/ /\ m \notin clients \/ UserIDOf(m) # apicall.msg.user_id
            /\ apicall' = SkipPos(apicall, m)
            /\ UNCHANGED <<send, panic>>
         \/ /\ UserIDOf(m) = apicall.msg.user_id
            /\ apicall' = SelectPos(apicall, m)
            /\ send' = SelectSend(apicall, m)
            /\ panic' = SelectPanic(m)
    /\ UNCHANGED <<clients, rooms, closed, currentRoom, rpc, wpc, hpc, nevents,
                   conn, timer>>

BroadcastToUserEvict ==
    /\ Alive
    /\ apicall.at = "bcast"
    /\ apicall.evict # ""
    /\ Evict(apicall.evict, hpc.at = "broadcast" /\ hpc.todo # {})
    /\ apicall' = IF panic' = "none" THEN [apicall EXCEPT !.evict = ""] ELSE apicall
    /\ UNCHANGED <<rooms, send, currentRoom, rpc, wpc, hpc, nevents, conn, timer>>

\* the range is exhausted: the deferred RUnlock, BroadcastToUser returns
BroadcastToUserEnd ==
    /\ Alive
    /\ apicall.at = "bcast"
    /\ apicall.evict = ""
    /\ apicall.todo = {}
    /\ apicall' = [apicall EXCEPT !.at = ""]
    /\ UNCHANGED <<clients, rooms, send, closed, currentRoom, rpc, wpc, hpc, panic,
                   nevents, conn, timer>>

NextBcast ==
    \/ \E c \in Clients : HandleWebSocket(c)
    \/ RunRegister
    \/ \E c \in Clients : WriteRecv(c)
    \/ ApiBroadcastToAll
    \/ RunBroadcastStep
    \/ RunBroadcastEvict
    \/ RunBroadcastEnd
    \/ \E u \in Users : ApiBroadcastToUser(u)
    \/ BroadcastToUserStep
    \/ BroadcastToUserEvict
    \/ BroadcastToUserEnd

SpecBcast == Init /\ [][NextBcast]_vars

\* One room and the traffic in it: the peers join r1, send one kind of relayed
\* message each, and leave; long enough for two members to send at the same
\* time and for a member to leave during a broadcast
RoomPeers == {"c1", "c2"}

RoomFramesOf(c) ==
    IF c = "c1" THEN {JoinFrame("r1"), LeaveFrame, HonestFrame("chat_message")}
    ELSE {JoinFrame("r1"), LeaveFrame, HonestFrame("content_change")}

ReadRoomFrame(c) ==
    /\ Alive
    /\ rpc[c].at = "idle"
    /\ wpc[c] # "done"
    /\ nevents < MaxRoomEvents
    /\ nevents' = nevents + 1
    /\ \E message \in RoomFramesOf(c) : readPumpLoop(c, message)
    /\ UNCHANGED <<wpc, hpc, apicall, conn, timer>>

NextRoom ==
    \/ \E c \in RoomPeers : HandleWebSocket(c)
    \/ RunRegister
    \/ \E c \in RoomPeers : readPumpExit(c)
    \/ \E c \in RoomPeers : ReadRoomFrame(c)
    \/ \E c \in RoomPeers : JoinRoomJoin(c)
    \/ \E c \in RoomPeers : JoinRoomConfirm(c)
    \/ \E c \in RoomPeers : LeaveRoomConfirm(c)
    \/ \E c \in RoomPeers : BroadcastToRoomStep(c)
    \/ \E c \in RoomPeers : BroadcastToRoomEvict(c)
    \/ \E c \in RoomPeers : BroadcastToRoomEnd(c)
    \/ \E c \in RoomPeers : WriteRecv(c)

SpecRoom == Init /\ [][NextRoom]_vars

-----------------------------------------------------------------------------
(* The life of a connection: readPump against writePump step by step.  One  *)
(* frame of the transport is what writePump writes between NextWriter and   *)
(* w.Close(); a write may fail at any time.                                 *)

ConnPeers == {"c1"}

ConnFramesOf(c) == {JoinFrame("r1"), PingFrame}

ReadConnFrame(c) ==
    /\ Alive
    /\ rpc[c].at = "idle"
    /\ wpc[c] # "done"
    /\ Count
    /\ \E message \in ConnFramesOf(c) : readPumpLoop(c, message)
    /\ UNCHANGED <<wpc, hpc, apicall, conn, timer>>

\* ReadMessage fails because writePump has closed the connection: readPump
\* breaks out of its loop and hands the client to Run over h.unregister
ReadClosed(c) ==
    /\ Alive
    /\ rpc[c].at = "idle"
    /\ wpc[c] = "done"
    /\ hpc.at = "select"
    /\ LockFree
    /\ Unregister(c)
    /\ rpc' = [rpc EXCEPT ![c] = At("done")]
    /\ UNCHANGED <<send, currentRoom, wpc, hpc, nevents, apicall, conn, timer>>

\* case message, ok := <-c.send.  With a message: NextWriter, w.Write(message)
\* and n := len(c.send).  Closed and drained: the close message, and return
\* (the deferred c.conn.Close()).
WriteBegin(c) ==
    /\ Alive
    /\ wpc[c] = "wait"
    /\ IF send[c] # <<>>
       THEN /\ send' = [send EXCEPT ![c] = Tail(@)]
            /\ conn' = [conn EXCEPT ![c].w = <<Head(send[c])>>,
                                    ![c].n = Len(send[c]) - 1]
            /\ wpc' = [wpc EXCEPT ![c] = "write"]
       ELSE /\ closed[c]
            /\ wpc' = [wpc EXCEPT ![c] = "done"]
            /\ UNCHANGED <<send, conn>>
    /\ UNCHANGED <<clients, rooms, closed, currentRoom, rpc, hpc, panic, nevents,
                   apicall, timer>>

\* variant of the coalescing step that takes the message queued last
WriteMore_TakesLast(c) ==
    /\ Alive
    /\ wpc[c] = "write"
    /\ conn[c].n > 0
    /\ send[c] # <<>>
    /\ send' = [send EXCEPT ![c] = SubSeq(@, 1, Len(@) - 1)]
    /\ conn' = [conn EXCEPT ![c].w = Append(@, send[c][Len(send[c])]),
                            ![c].n = @ - 1]
    /\ UNCHANGED <<clients, rooms, closed, currentRoom, rpc, wpc, hpc, panic,
                   nevents, apicall, timer>>

\* w.Write([]byte{'\n'}); w.Write(<-c.send): one more queued message is added
\* to the frame whose writer is open
WriteMore(c) ==
    /\ Alive
    /\ wpc[c] = "write"
    /\ conn[c].n > 0
    /\ send[c] # <<>>
    /\ send' = [send EXCEPT ![c] = Tail(@)]
    /\ conn' = [conn EXCEPT ![c].w = Append(@, Head(send[c])), ![c].n = @ - 1]
    /\ UNCHANGED <<clients, rooms, closed, currentRoom, rpc, wpc, hpc, panic,
                   nevents, apicall, timer>>

\* w.Close(): the frame goes to the peer, or fails on a connection that
\* readPump has closed meanwhile
WriteFlush(c) ==
    /\ Alive
    /\ wpc[c] = "write"
    /\ conn[c].n = 0
    /\ IF rpc[c].at = "done"
       THEN /\ wpc' = [wpc EXCEPT ![c] = "done"]
            /\ conn' = [conn EXCEPT ![c].w = <<>>]
       ELSE /\ wpc' = [wpc EXCEPT ![c] = "wait"]
            /\ conn' = [conn EXCEPT ![c].w = <<>>, ![c].wire = conn[c].w]
    /\ UNCHANGED <<clients, rooms, send, closed, currentRoom, rpc, hpc, panic,
                   nevents, apicall, timer>>

\* a write to the peer fails (NextWriter, w.Close() or the ping of the
\* ticker): writePump returns and its deferred c.conn.Close() runs
WriteError(c) ==
    /\ Alive
    /\ wpc[c] \in {"wait", "write"}
    /\ wpc' = [wpc EXCEPT ![c] = "done"]
    /\ conn' = [conn EXCEPT ![c].w = <<>>, ![c].n = 0]
    /\ UNCHANGED <<clients, rooms, send, closed, currentRoom, rpc, hpc, panic,
                   nevents, apicall, timer>>

NextConn ==
    \/ \E c \in ConnPeers : HandleWebSocket(c)
    \/ RunRegister
    \/ \E c \in ConnPeers : readPumpExit(c)
    \/ \E c \in ConnPeers : ReadClosed(c)
    \/ \E c \in ConnPeers : ReadConnFrame(c)
    \/ \E c \in ConnPeers : JoinRoomJoin(c)
    \/ \E c \in ConnPeers : JoinRoomConfirm(c)
    \/ \E c \in ConnPeers : PingSend(c)
    \/ \E c \in ConnPeers : WriteBegin(c)
    \/ \E c \in ConnPeers : WriteMore(c)
    \/ \E c \in ConnPeers : WriteFlush(c)
    \/ \E c \in ConnPeers : WriteError(c)

SpecConn == Init /\ [][NextConn]_vars

\* the scheduler runs every goroutine that can take a step; frames of the
\* peers, lost connections and write errors are up to the environment
ConnFairness ==
    /\ WF_vars(RunRegister)
    /\ \A c \in ConnPeers :
          /\ WF_vars(ReadClosed(c))
          /\ WF_vars(JoinRoomJoin(c))
          /\ WF_vars(JoinRoomConfirm(c))
          /\ WF_vars(PingSend(c))
          /\ WF_vars(WriteBegin(c))
          /\ WF_vars(WriteMore(c))
          /\ WF_vars(WriteFlush(c))

SpecConnFair == SpecConn /\ ConnFairness

-----------------------------------------------------------------------------
\* Registration against the broadcasts over the registry, for two connections
RegPeers == {"c1", "c2"}

NextReg ==
    \/ \E c \in RegPeers : HandleWebSocket(c)
    \/ RunRegister
    \/ \E c \in RegPeers : WriteRecv(c)
    \/ ApiBroadcastToAll
    \/ RunBroadcastStep
    \/ RunBroadcastEvict
    \/ RunBroadcastEnd
    \/ \E u \in Users : ApiBroadcastToUser(u)
    \/ BroadcastToUserStep
    \/ BroadcastToUserEvict
    \/ BroadcastToUserEnd

SpecReg == Init /\ [][NextReg]_vars

\* the scheduler runs Run and the goroutine inside BroadcastToUser whenever
\* they can take a step; new connections, new calls and the speed at which
\* the peers drain their queues are up to the environment
RegFairness ==
    /\ WF_vars(RunRegister)
    /\ WF_vars(RunBroadcastStep)
    /\ WF_vars(RunBroadcastEvict)
    /\ WF_vars(RunBroadcastEnd)
    /\ WF_vars(BroadcastToUserStep)
    /\ WF_vars(BroadcastToUserEvict)
    /\ WF_vars(BroadcastToUserEnd)

SpecRegFair == SpecReg /\ RegFairness

-----------------------------------------------------------------------------
(* Keepalive: the ticker of writePump, the write deadline and the read      *)
(* deadline of readPump, in seconds.  A goroutine that can take a step      *)
(* takes it before time passes; a write to the peer lasts up to writeWait.  *)

KeepPeers == {"c1"}

\* how long a write to the peer may last before it returns
WriteTimes == {0, writeWait \div 2, writeWait}

\* the peer sends a ping envelope
KeepFrame(c) == ReadFrameOf(c, PingFrame)

\* the steps that are taken before time passes
Urgent(c) ==
    \/ hpc.at # "select"
    \/ wpc[c] # "done" /\ timer[c].tick = 0
    \/ wpc[c] = "wait" /\ (timer[c].pending \/ send[c] # <<>> \/ closed[c])
    \/ wpc[c] = "write" /\ timer[c].busy = 0
    \/ rpc[c].at = "idle" /\ (timer[c].deadline = 0 \/ wpc[c] = "done")
    \/ rpc[c].at = "ping_send" /\ (CanSend(c) \/ closed[c])

\* one second passes for every connection whose pumps are running
Elapse ==
    /\ Alive
    /\ \E c \in KeepPeers : rpc[c].at \notin {"off", "done"} \/ wpc[c] \notin {"off", "done"}
    /\ \A c \in KeepPeers : rpc[c].at # "off" => ~Urgent(c)
    /\ timer' = [c \in Clients |->
          IF c \in KeepPeers /\ rpc[c].at # "off"
          THEN Timers(IF wpc[c] = "done" THEN timer[c].tick ELSE timer[c].tick - 1,
                      timer[c].pending,
                      IF timer[c].deadline > 0 THEN timer[c].deadline - 1 ELSE 0,
                      IF timer[c].busy > 0 THEN timer[c].busy - 1 ELSE 0,
                      timer[c].probed)
          ELSE timer[c]]
    /\ UNCHANGED <<clients, rooms, send, closed, currentRoom, rpc, wpc, hpc, panic,
                   nevents, apicall, conn>>

\* the ticker fires: a tick waits in ticker.C (one at most)
TickerFire(c) ==
    /\ Alive
    /\ wpc[c] \in {"wait", "write"}
    /\ timer[c].tick = 0
    /\ timer' = [timer EXCEPT ![c].tick = pingPeriod, ![c].pending = TRUE]
    /\ UNCHANGED <<clients, rooms, send, closed, currentRoom, rpc, wpc, hpc, panic,
                   nevents, apicall, conn>>

\* case <-ticker.C: the ping is written
WritePing(c) ==
    /\ Alive
    /\ wpc[c] = "wait"
    /\ timer[c].pending
    /\ timer' = [timer EXCEPT ![c].pending = FALSE, ![c].probed = TRUE]
    /\ UNCHANGED <<clients, rooms, send, closed, currentRoom, rpc, wpc, hpc, panic,
                   nevents, apicall, conn>>

\* case message, ok := <-c.send: SetWriteDeadline(writeWait), then the message
\* and every queued message go into one frame, whose write lasts d seconds
KeepWrite(c) ==
    /\ Alive
    /\ wpc[c] = "wait"
    /\ IF send[c] # <<>>
       THEN /\ send' = [send EXCEPT ![c] = <<>>]
            /\ wpc' = [wpc EXCEPT ![c] = "write"]
            /\ \E d \in WriteTimes : timer' = [timer EXCEPT ![c].busy = d]
       ELSE /\ closed[c]
            /\ wpc' = [wpc EXCEPT ![c] = "done"]
            /\ UNCHANGED <<send, timer>>
    /\ UNCHANGED <<clients, rooms, closed, currentRoom, rpc, hpc, panic, nevents,
                   apicall, conn>>

\* w.Close() returns within the write deadline
KeepWriteDone(c) ==
    /\ Alive
    /\ wpc[c] = "write"
    /\ timer[c].busy = 0
    /\ wpc' = [wpc EXCEPT ![c] = "wait"]
    /\ UNCHANGED <<clients, rooms, send, closed, currentRoom, rpc, hpc, panic,
                   nevents, apicall, conn, timer>>

\* the pong handler: the peer has answered the last ping
Pong(c) ==
    /\ Alive
    /\ rpc[c].at = "idle"
    /\ wpc[c] # "done"
    /\ timer[c].probed
    /\ timer[c].deadline > 0
    /\ timer' = [timer EXCEPT ![c].deadline = pongWait, ![c].probed = FALSE]
    /\ UNCHANGED <<clients, rooms, send, closed, currentRoom, rpc, wpc, hpc, panic,
                   nevents, apicall, conn>>

\* ReadMessage fails on the read deadline: break, and the deferred unregister
ReadTimeout(c) ==
    /\ Alive
    /\ rpc[c].at = "idle"
    /\ timer[c].deadline = 0
    /\ hpc.at = "select"
    /\ LockFree
    /\ Unregister(c)
    /\ rpc' = [rpc EXCEPT ![c] = At("done")]
    /\ UNCHANGED <<send, currentRoom, wpc, hpc, nevents, apicall, conn, timer>>

NextKeep ==
    \/ \E c \in KeepPeers : HandleWebSocket(c)
    \/ RunRegister
    \/ \E c \in KeepPeers : KeepFrame(c)
    \/ \E c \in KeepPeers : PingSend(c)
    \/ \E c \in KeepPeers : ReadClosed(c)
    \/ \E c \in KeepPeers : ReadTimeout(c)
    \/ \E c \in KeepPeers : Pong(c)
    \/ \E c \in KeepPeers : TickerFire(c)
    \/ \E c \in KeepPeers : WritePing(c)
    \/ \E c \in KeepPeers : KeepWrite(c)
    \/ \E c \in KeepPeers : KeepWriteDone(c)
    \/ \E c \in KeepPeers : WriteError(c)
    \/ Elapse

SpecKeep == Init /\ [][NextKeep]_vars

-----------------------------------------------------------------------------
(* Properties *)

Last(q) == q[Len(q)]

\* C1: no operation ever attempts to enqueue a message on the outbound queue of
\* a connection after that queue has been closed (in Go the attempt panics
\* with "send on closed channel").
C1_NoSendOnClosed == panic # "send on closed channel"

\* C2: registry consistency: every connection in some room's member set is
\* also in the hub's registry.  Stated for the states in which Run is not
\* between receiving a register request and adding the connection.
C2_RegistryConsistency ==
    hpc.at = "select" => \A r \in DOMAIN rooms : rooms[r] \subseteq clients

\* steps of the BroadcastToRoom that connection c's handler is running
\* the select at recipient m has been executed (without a panic)
Visits(c, m) ==
    /\ rpc[c].at = "bcast" /\ rpc[c].evict = "" /\ m \in rpc[c].todo
    /\ rpc'[c].at = "bcast" /\ rpc'[c].todo = rpc[c].todo \ {m}

\* the default branch for recipient m has been executed (without a panic)
Evicts(c, m) ==
    /\ rpc[c].at = "bcast" /\ rpc[c].evict = m /\ m # ""
    /\ rpc'[c].at = "bcast" /\ rpc'[c].evict = "" /\ rpc'[c].todo = rpc[c].todo

\* readPump of c has ended and Run has handled its unregister request
Exits(c) == rpc[c].at = "idle" /\ rpc'[c].at = "done"

\* C3: broadcast isolation: BroadcastToRoom never blocks on a recipient and
\* runs to completion: no visit of a recipient and no eviction of a recipient
\* whose queue is full stops the broadcast (here: by a panic of the process),
\* so the members that come after it are still served.
C3_BroadcastCompletes ==
    [][\A c \in Clients :
         (BroadcastToRoomStep(c) \/ BroadcastToRoomEvict(c)) => panic' = "none"]_vars

\* C4: after a BroadcastToRoom in which delivery to member m failed because m's
\* queue was full, m is removed from the registry and from the room's member
\* set, and the room's member count has dropped by one.
C4_EvictedLeavesRoom ==
    [][\A c, m \in Clients :
         Evicts(c, m) =>
            /\ m \notin clients'
            /\ \A r \in DOMAIN rooms' : m \notin rooms'[r]
            /\ Cardinality(rooms'[currentRoom[c]])
                   = Cardinality(rooms[currentRoom[c]]) - 1]_vars

\* C5: at most one room: a connection is never in two rooms' member sets, and
\* after its readPump has processed a join_room for a room it is a member of
\* exactly that room (the most recently joined one).
C5_AtMostOneRoom ==
    \A c \in Clients :
      /\ Cardinality(RoomsOf(c)) <= 1
      /\ rpc[c].at = "jr_confirm" => RoomsOf(c) = {rpc[c].frame.room_id}
      /\ (rpc[c].at = "idle" /\ currentRoom[c] # "") => RoomsOf(c) = {currentRoom[c]}

\* a connection that had joined r1 has now joined r2
C5_Witness ==
    \E c \in Clients :
      /\ rpc[c].at = "jr_confirm" /\ rpc[c].frame.room_id = "r2"
      /\ RoomsOf(c) = {"r2"}
      /\ \E i \in 1..Len(send[c]) :
           send[c][i].type = "room_joined" /\ send[c][i].room_id = "r1"

\* a direct call of Hub.JoinRoom has returned
JoinRoomCalled == apicall'.n = apicall.n + 1 /\ apicall'.op = "JoinRoom"

C7_NoEcho ==
    [][\A c, m \in Clients :
         Visits(c, m) =>
            IF m = c THEN send' = send /\ rpc'[c].evict = ""
            ELSE CanSend(m) => send'[m] = Append(send[m], rpc[c].msg)]_vars

\* C8: every relayed message carries the sending connection's own user id and
\* username and the sender's current room, whatever the inbound frame named,
\* and the inbound frame's payload; it is delivered only to members of the
\* room the sender is in.
C8_SenderIdentity ==
    [][\A c, m \in Clients :
         (Visits(c, m) /\ send'[m] # send[m]) =>
            LET d == Last(send'[m])
                f == rpc[c].frame
            IN  /\ d.type = f.type
                /\ d.user_id = UserIDOf(c)
                /\ d.username = UsernameOf(c)
                /\ currentRoom[c] # ""
                /\ d.room_id = currentRoom[c]
                /\ m \in rooms[currentRoom[c]]
                /\ IF f.type = "chat_message" THEN d.content = f.content
                   ELSE d.data = f.data]_vars

\* the relay of a frame that names another user and another room has been
\* delivered to a member other than the sender
C8_Witness ==
    \E c \in Clients :
      /\ rpc[c].at = "bcast"
      /\ rpc[c].frame.user_id \notin {"", UserIDOf(c)}
      /\ rpc[c].frame.room_id \notin {"", currentRoom[c]}
      /\ \E m \in rooms[currentRoom[c]] \ (rpc[c].todo \cup {c}) :
           send[m] # <<>> /\ Last(send[m]) = rpc[c].msg

\* C9: Unregister of a registered connection removes it from the registry and
\* from its current room, closes its outbound queue and deletes the room if it
\* became empty; the room's member count and the total connection count drop
\* by one.
C9_Unregister ==
    [][\A c \in Clients :
         (Exits(c) /\ c \in clients) =>
            /\ c \notin clients'
            /\ Cardinality(clients') = Cardinality(clients) - 1
            /\ closed'[c]
            /\ \A r \in DOMAIN rooms' : c \notin rooms'[r]
            /\ \A r \in RoomsOf(c) :
                 IF rooms[r] = {c} THEN r \notin DOMAIN rooms'
                 ELSE /\ r \in DOMAIN rooms'
                      /\ Cardinality(rooms'[r]) = Cardinality(rooms[r]) - 1]_vars

\* C10: when a connection that is a member of room r is unregistered without
\* having sent leave_room, a user_left announcement naming its user is
\* enqueued to every remaining member of r.
C10_UserLeftOnUnregister ==
    [][\A c \in Clients :
         (Exits(c) /\ c \in clients /\ ~closed[c]) =>
            \A r \in RoomsOf(c) : \A m \in rooms[r] \ {c} :
               (~closed[m] /\ CanSend(m)) =>
                  send'[m] = Append(send[m],
                      Message("user_left", r, UserIDOf(c), UsernameOf(c), "", ""))]_vars

\* Run has handled an unregister request made by a direct call
UnregisterCalled == apicall'.n = apicall.n + 1 /\ apicall'.op = "Unregister"

\* C11: idempotent teardown: the Unregister that finds the connection in the
\* registry removes it from the registry and from its rooms, closes its queue
\* and emits one user_left announcement to every remaining member of its room;
\* an Unregister of a connection that is no longer registered changes nothing
\* and emits nothing, so two calls leave the same state as one.
C11_IdempotentTeardown ==
    [][UnregisterCalled =>
         LET c == apicall'.client
         IN  IF c \in clients
             THEN /\ c \notin clients'
                  /\ closed'[c]
                  /\ \A r \in DOMAIN rooms' : c \notin rooms'[r]
                  /\ \A r \in RoomsOf(c) : \A m \in rooms[r] \ {c} :
                       (~closed[m] /\ CanSend(m)) =>
                          send'[m] = Append(send[m],
                              Message("user_left", r, UserIDOf(c), UsernameOf(c), "", ""))
             ELSE UNCHANGED <<clients, rooms, closed, send, panic>>]_vars

\* C12: unified teardown: whatever ended the connection, once its inbound
\* loop has ended and Run has handled its unregister request the connection
\* is absent from the registry and from every room, and its queue is closed.
C12_UnifiedTeardown ==
    \A c \in Clients :
      (Alive /\ rpc[c].at = "done") =>
         /\ c \notin clients
         /\ RoomsOf(c) = {}
         /\ closed[c]

\* every connection has left its room, by leave_room or by unregistering
AllLeft ==
    \A c \in Clients :
      \/ rpc[c].at \in {"off", "done"}
      \/ rpc[c].at = "idle" /\ currentRoom[c] = ""

\* C13 (first part): no room record has an empty member set.
NoEmptyRoom == \A r \in DOMAIN rooms : rooms[r] # {}

\* C13: room GC: no room record has an empty member set, and when every
\* connection that joined a room has left it the room count is zero.
C13_RoomGC ==
    /\ NoEmptyRoom
    /\ (Alive /\ AllLeft) => GetTotalRooms = 0

\* C14: ordering within a room: no two members have the same two relayed
\* messages A and B enqueued in opposite orders, also when A and B come from
\* two BroadcastToRoom calls that run at the same time.
C14_RoomOrder ==
    \A m1, m2 \in Clients :
      \A i, j \in 1..Len(send[m1]) : \A k, l \in 1..Len(send[m2]) :
        (/\ i < j /\ k < l
         /\ send[m1][i].type \in RelayTypes
         /\ send[m1][j].type \in RelayTypes
         /\ send[m1][i] # send[m1][j]) =>
           ~(send[m2][k] = send[m1][j] /\ send[m2][l] = send[m1][i])

\* a relayed message has been put on the queue of connection m
RelayEnqueued(m) ==
    /\ Len(send'[m]) = Len(send[m]) + 1
    /\ Last(send'[m]).type \in RelayTypes

\* C15: a relayed message for room r is enqueued on a connection's queue only
\* while the connection is a member of r: its JoinRoom(r) has taken effect,
\* its LeaveRoom(r) has not, and its unregistration has not been processed.
C15_OnlyWhileMember ==
    [][\A m \in Clients :
         RelayEnqueued(m) =>
            LET r == Last(send'[m]).room_id
            IN  /\ r \in DOMAIN rooms /\ m \in rooms[r]
                /\ r \in DOMAIN rooms' /\ m \in rooms'[r]
                /\ rpc[m].at \notin {"off", "done"}
                /\ ~closed[m]]_vars

\* a member of r1 has sent leave_room and its LeaveRoom has been processed; a
\* broadcast to r1 that started afterwards has reached a member that stayed
C15_Witness ==
    \E m, k, c \in Clients :
      /\ m # k
      /\ rpc[m].at = "lr_confirm"
      /\ \E i \in 1..Len(send[m]) :
           send[m][i].type = "room_joined" /\ send[m][i].room_id = "r1"
      /\ rpc[c].at = "bcast" /\ rpc[c].msg.room_id = "r1"
      /\ "r1" \in DOMAIN rooms /\ k \in rooms["r1"] /\ m \notin rooms["r1"]
      /\ k \notin rpc[c].todo
      /\ send[k] # <<>> /\ Last(send[k]) = rpc[c].msg

\* C16: structural mutations are mutually exclusive: a step that changes the
\* registry or a room's member set is taken by a goroutine that holds the
\* exclusive lock, so no goroutine is inside a section under RLock then.
C16_ExclusiveMutation ==
    [][(clients' # clients \/ rooms' # rooms) => LockFree]_vars

\* C17: broadcast iteration sees a consistent snapshot: while a goroutine is
\* ranging over the registry or over a room's member set, no step of another
\* goroutine adds an entry to or removes one from that collection.
C17_ConsistentSnapshot ==
    [][/\ (hpc.at = "broadcast" /\ hpc.todo # {} /\ hpc' = hpc)
             => clients' = clients
       /\ (apicall.at = "bcast" /\ apicall.todo # {} /\ apicall' = apicall)
             => clients' = clients
       /\ \A c \in Clients :
            (rpc[c].at = "bcast" /\ rpc[c].todo # {} /\ rpc'[c] = rpc[c]) =>
               /\ currentRoom[c] \in DOMAIN rooms'
               /\ rooms'[currentRoom[c]] = rooms[currentRoom[c]]]_vars

\* handleJoinRoom of connection c has called Hub.JoinRoom
JoinRoomStep(c) == rpc[c].at \in {"idle", "jr_join"} /\ rpc'[c].at = "jr_confirm"

\* C18: JoinRoom(c, r) returns having created room r if absent and added c,
\* and having enqueued user_joined with c's user id, username and r on every
\* member of r whose queue has space, the newly joined c included.
C18_JoinRoomAnnounces ==
    [][\A c \in Clients :
         JoinRoomStep(c) =>
            LET r == rpc'[c].frame.room_id
            IN  /\ panic' = "none"
                /\ r \in DOMAIN rooms'
                /\ rooms'[r] = (IF r \in DOMAIN rooms THEN rooms[r] ELSE {}) \cup {c}
                /\ \A m \in rooms'[r] :
                     CanSend(m) =>
                        send'[m] = Append(send[m],
                            Message("user_joined", r, UserIDOf(c), UsernameOf(c), "", ""))]_vars

\* C19: a connection whose inbound loop has processed join_room r gets its
\* room_joined confirmation: when the handler comes to send it, the
\* connection's queue is still open, so the send neither fails nor waits for a
\* writePump that has ended.
C19_ConfirmationDeliverable ==
    \A c \in Clients :
      rpc[c].at = "jr_confirm" => (~closed[c] /\ wpc[c] # "done")

\* a handler of connection c has called Hub.LeaveRoom for the room c is in
LeaveRoomStep(c) ==
    /\ rpc[c].at = "idle"
    /\ rpc'[c].at \in {"lr_confirm", "jr_join"}
    /\ currentRoom[c] # ""

\* C20: LeaveRoom(c, r) for a member c of r returns having removed c from r,
\* having enqueued user_left for c on every remaining member whose queue has
\* space and nothing on c, and having deleted the room if it became empty.
C20_LeaveRoomAnnounces ==
    [][\A c \in Clients :
         (LeaveRoomStep(c) /\ currentRoom[c] \in RoomsOf(c)) =>
            LET r == currentRoom[c]
            IN  /\ panic' = "none"
                /\ IF rooms[r] = {c} THEN r \notin DOMAIN rooms'
                   ELSE r \in DOMAIN rooms' /\ rooms'[r] = rooms[r] \ {c}
                /\ send'[c] = send[c]
                /\ \A m \in rooms[r] \ {c} :
                     CanSend(m) =>
                        send'[m] = Append(send[m],
                            Message("user_left", r, UserIDOf(c), UsernameOf(c), "", ""))]_vars

\* a step of one of c's own handlers for join_room, leave_room or ping
OwnHandlerStep(c) ==
    \/ ReadFrame(c) /\ rpc'[c].at # "bcast"
    \/ JoinRoomJoin(c)
    \/ JoinRoomConfirm(c)
    \/ LeaveRoomConfirm(c)
    \/ PingSend(c)

\* C21: once a connection's queue is closed, a later step of its own handlers
\* for ping, join_room and leave_room is a silent no-op: it changes neither
\* the registry nor a room, enqueues nothing and raises no panic
C21_ClosedIsTerminal ==
    [][\A c \in Clients :
          closed[c] /\ OwnHandlerStep(c)
              => UNCHANGED <<clients, rooms, send>> /\ panic' = "none"]_vars

\* C22: a failed delivery attempt is contained: a room broadcast that still
\* has recipients to serve is never stopped by a failure of the process
C22_FailureContained ==
    \A c \in Clients :
        rpc[c].at = "bcast" /\ rpc[c].todo # {} => Alive

\* C23: reading a frame that does not decode, or whose type is unknown,
\* changes neither the registry, the rooms, the queues nor the connection's
\* room, raises nothing, and leaves readPump reading the next frame
C23_BadFrameDropped ==
    [][\A c \in Clients : \A message \in {MalformedFrame, UnknownFrame} :
          ReadFrameOf(c, message)
              => /\ UNCHANGED <<clients, rooms, send, closed, currentRoom, wpc, panic>>
                 /\ rpc'[c].at = "idle"]_vars

\* a member of a room has dropped a frame of unknown type and a registered
\* connection a frame that does not decode; both are still served
C23_Witness ==
    /\ rpc["c2"] = InFrame("idle", UnknownFrame)
    /\ "c2" \in clients /\ currentRoom["c2"] = "r1" /\ "c2" \in rooms["r1"]
    /\ rpc["c3"] = InFrame("idle", MalformedFrame)
    /\ "c3" \in clients /\ ~closed["c3"]
    /\ wpc["c2"] = "wait" /\ wpc["c3"] = "wait" /\ Alive

\* C27: every frame writePump writes to the transport holds exactly one
\* JSON envelope
C27_OneEnvelopePerFrame ==
    \A c \in Clients : Len(conn[c].wire) <= 1

\* C24: once writePump has ended on a write error, the connection is
\* eventually out of the registry and out of every room
C24_WriteErrorUnregisters ==
    \A c \in ConnPeers :
        (wpc[c] = "done" /\ ~closed[c]) ~> (c \notin clients /\ RoomsOf(c) = {})

\* C26: when one of the two pumps of a connection has ended, the other one
\* eventually ends too
C26_NoLoopOutlives ==
    \A c \in ConnPeers :
        /\ (wpc[c] = "done") ~> (rpc[c].at = "done")
        /\ (rpc[c].at = "done") ~> (wpc[c] = "done")

\* in every window of the read deadline in which both pumps run a ping is
\* written
ProbeInEveryWindow ==
    \A c \in KeepPeers :
        /\ rpc[c].at \notin {"off", "done"}
        /\ wpc[c] \notin {"off", "done"}
        /\ timer[c].deadline = 0
        => timer[c].probed

\* when the read deadline has passed, readPump has ended or can still get to
\* its failing read
TimeoutUnregisters ==
    \A c \in KeepPeers :
        rpc[c].at # "off" /\ timer[c].deadline = 0
            => \/ rpc[c].at \in {"idle", "done"}
               \/ CanSend(c) \/ closed[c] \/ wpc[c] # "done"

\* C25: the ping period is 9/10 of the pong wait and shorter than it, a ping
\* is written within every window of the read deadline, and a connection
\* whose deadline has passed is unregistered
C25_Keepalive ==
    /\ pingPeriod * 10 = pongWait * 9
    /\ pingPeriod < pongWait
    /\ ProbeInEveryWindow
    /\ TimeoutUnregisters

\* C28: BroadcastToUser ranges over the whole registry and runs to its end:
\* every entry it passes gets the message appended exactly once when it is
\* registered, of the user named and has queue space, no other queue changes,
\* and no step of the call fails
C28_BroadcastToUser ==
    [][/\ \A u \in Users : ApiBroadcastToUser(u) => apicall'.todo = clients
       /\ (BroadcastToUserStep \/ BroadcastToUserEvict) =>
            /\ panic' = "none"
            /\ \A m \in Clients :
                 send'[m] =
                    IF /\ m \in apicall.todo \ apicall'.todo
                       /\ m \in clients
                       /\ UserIDOf(m) = apicall.msg.user_id
                       /\ CanSend(m)
                    THEN Append(send[m], apicall.msg)
                    ELSE send[m]]_vars

\* C29: Run's broadcast case ranges over the registry as it is when the
\* request is received and runs to its end: every entry it passes gets the
\* message appended exactly once when it has queue space, an entry whose
\* queue is full leaves the registry, and no step of the range fails
C29_BroadcastToAll ==
    [][/\ ApiBroadcastToAll => hpc'.todo = clients
       /\ RunBroadcastEvict => panic' = "none" /\ hpc.evict \notin clients'
       /\ RunBroadcastStep =>
            /\ panic' = "none"
            /\ \A m \in Clients :
                 send'[m] =
                    IF m \in hpc.todo \ hpc'.todo /\ m \in clients /\ CanSend(m)
                    THEN Append(send[m], hpc.msg)
                    ELSE send[m]]_vars

\* C30: while the process runs, a connection that HandleWebSocket has handed
\* to Run over h.register is eventually in the registry, whatever broadcasts
\* are in flight and whichever queues are full
C30_RegisterSucceeds ==
    \A c \in Clients :
        (hpc.at = "register" /\ hpc.client = c) ~> (c \in clients \/ ~Alive)

\* c2 has been registered although c1's queue is full, and is now in the
\* range of a BroadcastToUser
C30_Witness ==
    /\ "c2" \in clients
    /\ "c1" \in clients /\ ~CanSend("c1") /\ ~closed["c1"]
    /\ apicall.at = "bcast" /\ "c2" \in apicall.todo
    /\ Alive

\* C31: a connection becomes a member of a room only while it is in the
\* registry: not before Run has added it and not after it has been removed
C31_JoinOnlyWhileRegistered ==
    [][\A c \in Clients : \A r \in Rooms :
          (c \notin (IF r \in DOMAIN rooms THEN rooms[r] ELSE {})
             /\ r \in DOMAIN rooms' /\ c \in rooms'[r])
              => c \in clients /\ c \in clients']_vars

\* C32: the queue of a connection is closed at most once: no goroutine
\* closes a queue that is closed already
C32_ClosedAtMostOnce == panic # "close of closed channel"

\* C33: for a registered connection whose readPump is between two frames,
\* the currentRoom field and the room map agree: the connection is in the
\* room the field names and in no other, and in no room when it is empty
C33_CurrentRoomAgrees ==
    \A c \in Clients :
        (c \in clients /\ rpc[c].at = "idle") =>
            RoomsOf(c) = IF currentRoom[c] = "" THEN {} ELSE {currentRoom[c]}

\* between two frames: c1 has joined a room and left it again, c2 is in r2
C33_Witness ==
    /\ "c1" \in clients /\ rpc["c1"].at = "idle"
    /\ currentRoom["c1"] = "" /\ RoomsOf("c1") = {}
    /\ \E i \in 1..Len(send["c1"]) : send["c1"][i].type = "room_left"
    /\ "c2" \in clients /\ rpc["c2"].at = "idle"
    /\ currentRoom["c2"] = "r2" /\ RoomsOf("c2") = {"r2"}

-----------------------------------------------------------------------------
(* One sender and one listener in a room.  Every chat frame the sender's    *)
(* peer writes carries a content of its own (the number of frames read so   *)
(* far), as two messages of a conversation differ; the relayed message      *)
(* carries that content on (handleChatMessage: Content: msg.Content).       *)

MaxFifoEvents == 4

FifoPeers == {"c1", "c2"}

NumberedFrame(k) == Message("chat_message", "", "", "", ToString(k), "")

SeqNo(content) == CHOOSE k \in 0..(MaxFifoEvents + 1) : ToString(k) = content

FifoFramesOf(c) ==
    IF c = "c1" THEN {JoinFrame("r1"), NumberedFrame(nevents)}
    ELSE {JoinFrame("r1")}

ReadFifoFrame(c) ==
    /\ Alive
    /\ rpc[c].at = "idle"
    /\ wpc[c] # "done"
    /\ nevents < MaxFifoEvents
    /\ nevents' = nevents + 1
    /\ \E message \in FifoFramesOf(c) : readPumpLoop(c, message)
    /\ UNCHANGED <<wpc, hpc, apicall, conn, timer>>

NextFifo ==
    \/ \E c \in FifoPeers : HandleWebSocket(c)
    \/ RunRegister
    \/ \E c \in FifoPeers : readPumpExit(c)
    \/ \E c \in FifoPeers : ReadFifoFrame(c)
    \/ \E c \in FifoPeers : JoinRoomJoin(c)
    \/ \E c \in FifoPeers : JoinRoomConfirm(c)
    \/ \E c \in FifoPeers : BroadcastToRoomStep(c)
    \/ \E c \in FifoPeers : BroadcastToRoomEvict(c)
    \/ \E c \in FifoPeers : BroadcastToRoomEnd(c)
    \/ \E c \in FifoPeers : WriteRecv(c)

SpecFifo == Init /\ [][NextFifo]_vars

\* C34: two messages that one connection relays to its room stand, in the
\* queue of every other member that holds both, in the order in which the
\* connection sent them
C34_PerSenderFifo ==
    \A c \in FifoPeers : \A m \in FifoPeers \ {c} :
        \A i \in 1..Len(send[m]) : \A j \in 1..Len(send[m]) :
            (/\ i < j
             /\ send[m][i].type = "chat_message"
             /\ send[m][j].type = "chat_message"
             /\ send[m][i].user_id = UserIDOf(c)
             /\ send[m][j].user_id = UserIDOf(c))
                => SeqNo(send[m][i].content) < SeqNo(send[m][j].content)

\* c2, a member of r1, holds two messages of c1, the earlier one first
C34_Witness ==
    /\ "r1" \in DOMAIN rooms
    /\ "c2" \in rooms["r1"]
    /\ Len(send["c2"]) = 2
    /\ send["c2"][1].type = "chat_message"
    /\ send["c2"][2].type = "chat_message"
    /\ send["c2"][1].user_id = UserIDOf("c1")
    /\ send["c2"][2].user_id = UserIDOf("c1")
    /\ send["c2"][1].content # send["c2"][2].content

\* the messages of a connection that are not on the transport yet: those in
\* the frame writePump is assembling, then those in the queue
Pending(c) == conn[c].w \o send[c]

\* C35: writePump puts the queued messages on the transport in the order of
\* the queue, each once: a message moves from the head of the queue to the
\* end of the frame being assembled, a frame goes out as assembled, nothing
\* else touches the pending messages but an enqueue at the end; and the
\* coalescing loop never waits for more messages than the queue holds
C35_WritesInQueueOrder ==
    /\ [](\A c \in ConnPeers : wpc[c] = "write" => conn[c].n <= Len(send[c]))
    /\ [][\A c \in ConnPeers :
            \/ wpc'[c] = "done"
            \/ /\ wpc[c] = "write" /\ wpc'[c] = "wait"
               /\ conn'[c].wire = conn[c].w
               /\ Pending(c)' = send[c]
            \/ /\ ~(wpc[c] = "write" /\ wpc'[c] = "wait")
               /\ conn'[c].wire = conn[c].wire
               /\ \/ Pending(c)' = Pending(c)
                  \/ /\ Len(Pending(c)') = Len(Pending(c)) + 1
                     /\ SubSeq(Pending(c)', 1, Len(Pending(c))) = Pending(c)]_vars

\* writePump has written a frame of two messages, the second one queued
\* while the first was being written, and the next message is waiting
C35_Witness ==
    /\ wpc["c1"] = "wait"
    /\ Len(conn["c1"].wire) = 2
    /\ conn["c1"].wire[1] # conn["c1"].wire[2]
    /\ send["c1"] # <<>>

\* the relayed kinds of frame a peer can write, with and without a forged
\* room and identity
RelayFrames ==
    {HonestFrame(t) : t \in RelayTypes}
        \cup {ForgedFrame(t, "r2", "u2", "bob") : t \in RelayTypes}
        \cup {ForgedFrame(t, "r2", "u1", "alice") : t \in RelayTypes}

\* C36: a content_change, cursor_move, selection_change or chat_message read
\* from a connection that is in no room starts no broadcast and changes
\* neither the queues, the registry, the rooms nor the connection's room
C36_RelayOutsideRoomDropped ==
    [][\A c \in Clients : \A message \in RelayFrames :
          (currentRoom[c] = "" /\ ReadFrameOf(c, message))
              => /\ UNCHANGED <<clients, rooms, send, closed, currentRoom, wpc, panic>>
                 /\ rpc'[c].at = "idle"]_vars

\* c1, registered and in no room, has just had a chat message dropped that
\* names r2, a room that exists and has the member c2
C36_Witness ==
    /\ rpc["c1"] = InFrame("idle", ForgedFrame("chat_message", "r2", "u2", "bob"))
    /\ "c1" \in clients /\ currentRoom["c1"] = ""
    /\ "r2" \in DOMAIN rooms /\ "c2" \in rooms["r2"]
    /\ \A c \in Clients : \A i \in 1..Len(send[c]) : send[c][i].type # "chat_message"

\* C37: a join_room frame with an empty room id changes neither the rooms
\* nor the connection's room, puts nothing on any queue (no user_left, no
\* user_joined, no room_joined) and leaves readPump reading the next frame
C37_EmptyJoinIgnored ==
    [][\A c \in Clients :
          ReadFrameOf(c, JoinFrame(""))
              => /\ UNCHANGED <<clients, rooms, send, closed, currentRoom, wpc, panic>>
                 /\ rpc'[c].at = "idle"]_vars

\* c1, in r1 together with c2, has just had a join_room frame without room
\* id ignored: it is still in r1 and c2 was told of no departure
C37_Witness ==
    /\ rpc["c1"] = InFrame("idle", JoinFrame(""))
    /\ currentRoom["c1"] = "r1"
    /\ "r1" \in DOMAIN rooms /\ {"c1", "c2"} \subseteq rooms["r1"]
    /\ \A i \in 1..Len(send["c2"]) : send["c2"][i].type # "user_left"

\* C38: when the handler of a leave_room frame comes to its confirmation,
\* the connection is in no room, its currentRoom is empty, and the room_left
\* can be enqueued: the process runs, the connection's queue is open and
\* its writePump is there to make room
C38_LeaveRoomConfirmed ==
    \A c \in Clients :
        rpc[c].at = "lr_confirm" =>
            /\ Alive
            /\ currentRoom[c] = "" /\ RoomsOf(c) = {}
            /\ ~closed[c] /\ wpc[c] # "done"

=============================================================================
